---- MODULE Spec2Model ----
(***************************************************************************)
(* Model of scripts/download_videos.py: the fetch / batch / commit         *)
(* pipeline.  Every run (one process executing main()) owns an accumulator *)
(* (batch_entries, batch_names, batch_size), a snapshot of the remote      *)
(* store (last_index_sha, last_repo_files, last_remote_files), a list of   *)
(* pending futures and the counters.  Runs share one remote store, whose   *)
(* multi-file write (upload_folder with parent_commit) is accepted only    *)
(* when the store's head is the parent revision.                           *)
(***************************************************************************)
EXTENDS Integers, Sequences, FiniteSets, TLC

VARIABLES
    args,        \* per run: the parsed command line and the run's environment
                 \* (item sizes, local files, what fetches and the transport
                 \* can do); never changes
    run,         \* per run: the closure variables of main() and its position
    head,        \* remote store: the current revision (sha)
    repo_files,  \* remote store: the files at head, each with its content
    commit_log,  \* history: one record per revision of the remote store
    last_call    \* history: the last accumulator call made by the unit driver

vars == <<args, run, head, repo_files, commit_log, last_call>>

(***************************************************************************)
(* Bounds of the model.                                                    *)
(***************************************************************************)
NumNames == 3
MaxSize == 2

Runs == {1, 2}
Names == 1..NumNames

(***************************************************************************)
(* Small helpers.                                                          *)
(***************************************************************************)
Max(S) == CHOOSE x \in S : \A y \in S : y <= x

Range(seq) == {seq[k] : k \in 1..Len(seq)}

RECURSIVE SumSizes(_)
SumSizes(entries) ==
    IF entries = <<>> THEN 0
    ELSE entries[1].size + SumSizes(Tail(entries))

EntryNames(entries) == [k \in 1..Len(entries) |-> entries[k].name]

(***************************************************************************)
(* Paths.  A remote path is dir/base where base is "part_" or not,         *)
(* followed by a text (a sequence of characters: 0..9 are the digits, any  *)
(* larger number another character) and an extension.                      *)
(***************************************************************************)
IsDigit(text) == Len(text) > 0 /\ \A k \in 1..Len(text) : text[k] <= 9

RECURSIVE ParseInt(_)
ParseInt(text) ==
    IF text = <<>> THEN 0
    ELSE ParseInt(SubSeq(text, 1, Len(text) - 1)) * 10 + text[Len(text)]

RECURSIVE Digits(_)
Digits(n) == IF n < 10 THEN <<n>> ELSE Append(Digits(n \div 10), n % 10)

RECURSIVE ZeroPad(_, _)
ZeroPad(text, width) ==
    IF Len(text) >= width THEN text ELSE ZeroPad(<<0>> \o text, width)

\* f"part_{part_number:04d}.tar"
TarName(part_number) ==
    [part |-> TRUE, text |-> ZeroPad(Digits(part_number), 4), ext |-> ".tar"]

\* os.path.join(dir, base)
JoinPath(dir, base) ==
    [dir |-> dir, part |-> base.part, text |-> base.text, ext |-> base.ext]

\* os.path.join(args.index_dir, tar_name.replace(".tar", ".json"))
IndexPath(index_dir, tar_name) ==
    JoinPath(index_dir, [tar_name EXCEPT !.ext = ".json"])

\* f"{name}.mp4"
Filename(name) == <<name, ".mp4">>

\* os.path.join(args.video_path, filename)
FilePath(name) == [dir |-> "video_path", file |-> Filename(name)]

\* os.path.basename(path)
Basename(path) == path.file

AllFilenames == {Filename(n) : n \in Names}

(***************************************************************************)
(* split_repo_files and next_part_number.                                  *)
(***************************************************************************)
IsTarPath(path) == path.dir = "videos" /\ path.part /\ path.ext = ".tar"

IsIndexPath(path) == ~IsTarPath(path) /\ path.dir = "index" /\ path.ext = ".json"

SplitRepoFiles(files) ==
    [tar_numbers |->
        {ParseInt(p.text) : p \in {q \in files : IsTarPath(q) /\ IsDigit(q.text)}},
     index_numbers |->
        {ParseInt(p.text) :
            p \in {q \in files : IsIndexPath(q) /\ q.part /\ IsDigit(q.text)}},
     index_files |-> {q \in files : IsIndexPath(q)}]

\* (mutant) next_part_number that looks at the archives only
NextPartNumberTars(tar_numbers, index_numbers) ==
    IF tar_numbers # {} THEN Max(tar_numbers) + 1 ELSE 0

\* (mutant) next_part_number that counts the numbers instead of taking the
\* largest
NextPartNumberCount(tar_numbers, index_numbers) ==
    Cardinality(tar_numbers \cup index_numbers)

NextPartNumber(tar_numbers, index_numbers) ==
    LET all_numbers == tar_numbers \cup index_numbers
    IN  IF all_numbers # {} THEN Max(all_numbers) + 1 ELSE 0

(***************************************************************************)
(* The remote store.  A file is [path, data]; the data of a manifest is    *)
(* [type, names]: a JSON array of names or an object keyed by name, as the *)
(* set of names load_remote_index makes of it.                             *)
(***************************************************************************)
ListRepoFiles(files) == {f.path : f \in files}

\* load_remote_index: set(data) for an array, set(data.keys()) for an object
LoadRemoteIndex(data) ==
    IF data.type = "array" THEN data.names
    ELSE IF data.type = "object" THEN data.names
    ELSE {}

RemoteNames(files) ==
    UNION {LoadRemoteIndex(f.data) : f \in {g \in files : IsIndexPath(g.path)}}

\* the names of the manifests at a revision of the store
NamesAt(sha) == UNION {commit_log[k].names : k \in 1..sha}

(***************************************************************************)
(* Derived settings (main, lines 112-116 and 362).                         *)
(***************************************************************************)
ThresholdBytes(r) == args[r].upload_threshold

ReferenceBytes(r) ==
    IF args[r].upload_reference > ThresholdBytes(r) THEN ThresholdBytes(r)
    ELSE args[r].upload_reference

Jobs(r) == IF args[r].jobs > 0 THEN args[r].jobs ELSE 1

MaxPending(r) == IF Jobs(r) * 2 > 1 THEN Jobs(r) * 2 ELSE 1

(***************************************************************************)
(* The accumulator.  s is the record of one run's variables.               *)
(***************************************************************************)
Exists(fs, path) == path \in DOMAIN fs

\* (mutant) add_to_batch without the test of batch_names
AddToBatchAgain(s, path) ==
    IF ~Exists(s.fs, path) THEN [s |-> s, ok |-> FALSE]
    ELSE IF s.fs[path] <= 0 THEN [s |-> s, ok |-> FALSE]
    ELSE [s |-> [s EXCEPT
                    !.batch_entries = Append(@, [name |-> Basename(path),
                                                 path |-> path,
                                                 size |-> s.fs[path]]),
                    !.batch_names = @ \cup {Basename(path)},
                    !.batch_size = @ + s.fs[path]],
          ok |-> TRUE]

AddToBatch(s, path) ==
    IF ~Exists(s.fs, path) THEN [s |-> s, ok |-> FALSE]
    ELSE IF Basename(path) \in s.batch_names THEN [s |-> s, ok |-> FALSE]
    ELSE IF s.fs[path] <= 0 THEN [s |-> s, ok |-> FALSE]
    ELSE [s |-> [s EXCEPT
                    !.batch_entries = Append(@, [name |-> Basename(path),
                                                 path |-> path,
                                                 size |-> s.fs[path]]),
                    !.batch_names = @ \cup {Basename(path)},
                    !.batch_size = @ + s.fs[path]],
          ok |-> TRUE]

\* the loop of remove_entries over batch_entries[k..]
RECURSIVE RemoveLoop(_, _, _, _)
RemoveLoop(entries, k, names, acc) ==
    IF k > Len(entries) THEN acc
    ELSE IF entries[k].name \in names
    THEN RemoveLoop(entries, k + 1, names,
            [acc EXCEPT !.removed = @ + 1,
                        !.batch_size = @ - entries[k].size,
                        !.batch_names = @ \ {entries[k].name},
                        !.gone = @ \cup {entries[k].name}])
    ELSE RemoveLoop(entries, k + 1, names,
            [acc EXCEPT !.remaining = Append(@, entries[k])])

\* (mutant) remove_entries that drops the entries and leaves the size and the
\* name set as they were
RemoveEntriesKeepSize(s, names, count_post_skip) ==
    IF names = {} \/ s.batch_entries = <<>> THEN [s |-> s, removed |-> 0]
    ELSE LET acc == RemoveLoop(s.batch_entries, 1, names,
                        [remaining |-> <<>>, removed |-> 0,
                         batch_size |-> s.batch_size,
                         batch_names |-> s.batch_names, gone |-> {}])
         IN  [s |-> [s EXCEPT !.batch_entries =
                                  IF acc.removed > 0 THEN acc.remaining ELSE @],
              removed |-> acc.removed]

RemoveEntries(s, names, count_post_skip) ==
    IF names = {} \/ s.batch_entries = <<>> THEN [s |-> s, removed |-> 0]
    ELSE LET acc == RemoveLoop(s.batch_entries, 1, names,
                        [remaining |-> <<>>, removed |-> 0,
                         batch_size |-> s.batch_size,
                         batch_names |-> s.batch_names, gone |-> {}])
             posted == count_post_skip /\ acc.removed > 0
         IN  [s |-> [s EXCEPT
                        !.batch_size = acc.batch_size,
                        !.batch_names = acc.batch_names,
                        !.batch_entries =
                            IF acc.removed > 0 THEN acc.remaining ELSE @,
                        !.post_skip_count =
                            IF posted THEN @ + acc.removed ELSE @,
                        !.counted =
                            IF posted
                            THEN @ \cup {<<n, "post_skip">> : n \in acc.gone}
                            ELSE @],
              removed |-> acc.removed]

\* the loop of select_entries over batch_entries[k..]
RECURSIVE SelectLoop(_, _, _, _)
SelectLoop(entries, k, target_bytes, acc) ==
    IF k > Len(entries) \/ acc.total >= target_bytes THEN acc
    ELSE SelectLoop(entries, k + 1, target_bytes,
            [selected |-> Append(acc.selected, entries[k]),
             total |-> acc.total + entries[k].size])

\* (mutant) select_entries without the test of size_lowerbound
SelectEntriesNoMinimum(entries, target_bytes, size_lowerbound) ==
    SelectLoop(entries, 1, target_bytes, [selected |-> <<>>, total |-> 0])

SelectEntries(entries, target_bytes, size_lowerbound) ==
    LET acc == SelectLoop(entries, 1, target_bytes,
                          [selected |-> <<>>, total |-> 0])
    IN  IF acc.total < size_lowerbound THEN [selected |-> <<>>, total |-> 0]
        ELSE acc

(***************************************************************************)
(* refresh_indexes.  The listing and every manifest are read at the        *)
(* revision repo_info returned, so a refresh sees one revision of the      *)
(* store.  Whether a refresh that is not forced is due depends on the      *)
(* clock: the caller chooses.                                              *)
(***************************************************************************)
\* (mutant) the refresh keeps the old known-name set
RefreshIndexesStale(s) ==
    LET rm == RemoveEntries(s, RemoteNames(repo_files), TRUE)
    IN  [s |-> [rm.s EXCEPT !.last_index_sha = head,
                            !.last_repo_files = ListRepoFiles(repo_files)],
         result |-> rm.removed > 0]

\* (mutant) refresh_indexes that purges without count_post_skip
RefreshIndexesUncounted(s) ==
    LET curr_index_sha == head
        curr_repo_files == ListRepoFiles(repo_files)
        index_files == SplitRepoFiles(curr_repo_files).index_files
        curr_remote_files ==
            UNION {LoadRemoteIndex(f.data) :
                      f \in {g \in repo_files : g.path \in index_files}}
        changed == curr_remote_files # s.last_remote_files
        rm == RemoveEntries(s, curr_remote_files, FALSE)
    IN  [s |-> [rm.s EXCEPT !.last_index_sha = curr_index_sha,
                            !.last_repo_files = curr_repo_files,
                            !.last_remote_files = curr_remote_files],
         result |-> changed \/ rm.removed > 0]

RefreshIndexes(s) ==
    LET curr_index_sha == head
        curr_repo_files == ListRepoFiles(repo_files)
        index_files == SplitRepoFiles(curr_repo_files).index_files
        curr_remote_files ==
            UNION {LoadRemoteIndex(f.data) :
                      f \in {g \in repo_files : g.path \in index_files}}
        changed == curr_remote_files # s.last_remote_files
        rm == RemoveEntries(s, curr_remote_files, TRUE)
    IN  [s |-> [rm.s EXCEPT !.last_index_sha = curr_index_sha,
                            !.last_repo_files = curr_repo_files,
                            !.last_remote_files = curr_remote_files],
         result |-> changed \/ rm.removed > 0]

RefreshIfDue(s, due) == IF due THEN RefreshIndexes(s).s ELSE s

(***************************************************************************)
(* The coordinator's control flow.  pc is the position of main():          *)
(*   init           line 351, the first forced refresh                     *)
(*   dispatch       line 396, the top of the loop over video_names         *)
(*   wait_slot      line 413, waiting for room in pending                  *)
(*   wait_dispatch  line 420, wait_for_dispatch and the collect after it   *)
(*   drain          line 423, the loop until pending is empty              *)
(*   attempt        line 229, the top of the loop of attempt_upload        *)
(*   upload         line 262, the call of upload_folder                    *)
(*   slot_refresh, tick_refresh, drain_refresh, final_refresh:             *)
(*                  the refresh_if_due that follows a returned flush       *)
(*   done, crashed  main returned, or an exception left it                 *)
(* ret is where attempt_upload returns to.                                 *)
(***************************************************************************)
\* (mutant) the final flush entered without the drain loop of line 423
SettleEarly(s) ==
    IF s.batch_entries = <<>> THEN [s EXCEPT !.pc = "done"]
    ELSE [s EXCEPT !.pc = "attempt", !.final = TRUE, !.ret = "final",
                   !.conflicts = 0, !.first_part = -1]

\* lines 423 and 429: the tests of the two loops that end main().  With
\* nothing pending and nothing batched the run is done; with entries left
\* the loop at line 429 calls attempt_upload(final=True)
Settle(s) ==
    IF s.pc = "drain" /\ s.pending # <<>> THEN s
    ELSE IF s.batch_entries = <<>> THEN [s EXCEPT !.pc = "done"]
    ELSE [s EXCEPT !.pc = "attempt", !.final = TRUE, !.ret = "final",
                   !.conflicts = 0, !.first_part = -1]

\* the end of one iteration of the loop over video_names
Advance(r, s) ==
    IF s.i + 1 > Len(args[r].video_names)
    THEN Settle([s EXCEPT !.i = @ + 1, !.pc = "drain"])
    ELSE [s EXCEPT !.i = @ + 1, !.pc = "dispatch"]

\* attempt_upload returns `result` to its caller
Return(r, s, result) ==
    CASE s.ret = "next"  -> Advance(r, s)
      [] s.ret = "slot"  -> [s EXCEPT !.pc = "slot_refresh"]
      [] s.ret = "tick"  -> [s EXCEPT !.pc = "tick_refresh"]
      [] s.ret = "drain" -> [s EXCEPT !.pc = "drain_refresh"]
      [] s.ret = "final" -> IF result THEN Settle([s EXCEPT !.pc = "final"])
                            ELSE [s EXCEPT !.pc = "final_refresh"]

\* (mutant) maybe_flush that never calls attempt_upload
NeedsFlushNever(r, s) == FALSE

\* (mutant) maybe_flush that waits until the threshold is passed
NeedsFlushAbove(r, s) == s.batch_size > ThresholdBytes(r)

\* maybe_flush: the test, and the call of attempt_upload(final=False)
NeedsFlush(r, s) == s.batch_size >= ThresholdBytes(r)

CallAttempt(s, final, ret) ==
    [s EXCEPT !.pc = "attempt", !.final = final, !.ret = ret,
              !.conflicts = 0, !.first_part = -1]

\* (mutant) the dispatch loop and collect_completed never find a name remote
KnownRemoteNever(s, filename) == FALSE

\* line 400 and line 374: is the name already known to be remote
KnownRemote(s, filename) == filename \in s.last_remote_files

\* executor.submit(download_one, name) and pending.append
Submit(s, name) ==
    [s EXCEPT !.pending = Append(@, [name |-> name, done |-> FALSE,
                                     status |-> "running",
                                     result |-> FilePath(name)]),
              !.submitted = @ \cup {[name |-> name,
                                     check_sha |-> s.check_sha,
                                     at |-> head]},
              !.pc = "wait_dispatch"]

Count(s, filename, label) ==
    [s EXCEPT !.counted = @ \cup {<<filename, label>>}]

\* the first loop of collect_completed, over pending[k..]
RECURSIVE CollectLoop(_, _)
CollectLoop(s, k) ==
    IF k > Len(s.pending) THEN s
    ELSE LET future == s.pending[k]
             filename == Filename(future.name)
         IN  IF ~future.done THEN CollectLoop(s, k + 1)
             ELSE IF future.status = "downloaded"
             THEN IF KnownRemote(s, filename)
                  THEN CollectLoop(
                         Count([s EXCEPT !.post_skip_count = @ + 1],
                               filename, "post_skip"), k + 1)
                  ELSE CollectLoop(
                         AddToBatch(
                           Count([s EXCEPT !.success_count = @ + 1],
                                 filename, "success"),
                           future.result).s, k + 1)
             ELSE IF future.status = "failed"
             THEN CollectLoop(
                    Count([s EXCEPT !.fail_count = @ + 1], filename, "fail"),
                    k + 1)
             ELSE LET t == Count([s EXCEPT !.skip_count = @ + 1],
                                 filename, "skip")
                  IN  IF KnownRemote(t, filename)
                      THEN CollectLoop(
                             Count([t EXCEPT !.post_skip_count = @ + 1],
                                   filename, "post_skip"), k + 1)
                      ELSE CollectLoop(AddToBatch(t, future.result).s, k + 1)

\* (mutant) collect_completed that empties pending, finished or not
CollectCompletedClears(s) ==
    [s |-> [CollectLoop(s, 1) EXCEPT !.pending = <<>>],
     completed |-> \E k \in 1..Len(s.pending) : s.pending[k].done]

\* collect_completed up to maybe_flush: the state, and whether any completed
CollectCompleted(s) ==
    [s |-> [CollectLoop(s, 1) EXCEPT
               !.pending = SelectSeq(s.pending, LAMBDA f : ~f.done)],
     completed |-> \E k \in 1..Len(s.pending) : s.pending[k].done]

\* collect_completed, then `after` unless maybe_flush calls attempt_upload
CollectThen(r, s, ret, due) ==
    LET c == CollectCompleted(s)
    IN  IF c.completed /\ NeedsFlush(r, c.s)
        THEN CallAttempt(c.s, FALSE, ret)
        ELSE RefreshIfDue(c.s, due)

\* (mutant) the wait loop tested with > instead of >=
SlotOrSubmitLate(r, s) ==
    IF Len(s.pending) > MaxPending(r) THEN [s EXCEPT !.pc = "wait_slot"]
    ELSE Submit(s, args[r].video_names[s.i])

\* lines 413-419: the test of the wait loop, and the submit after it
SlotOrSubmit(r, s) ==
    IF Len(s.pending) >= MaxPending(r) THEN [s EXCEPT !.pc = "wait_slot"]
    ELSE Submit(s, args[r].video_names[s.i])

(***************************************************************************)
(* Actions of the coordinator of run r.                                    *)
(***************************************************************************)
Start(r) ==
    /\ run[r].pc = "init"
    /\ \E s \in {RefreshIndexes(run[r]).s} :
         run' = [run EXCEPT ![r] =
            Advance(r, [s EXCEPT !.initial_remote = s.last_remote_files])]
    /\ UNCHANGED <<args, head, repo_files, commit_log, last_call>>

\* one iteration of the loop over video_names, up to the wait for a slot
Dispatch(r) ==
    /\ run[r].pc = "dispatch"
    /\ \E due \in BOOLEAN : \E s0 \in {RefreshIfDue(run[r], due)} :
       \E s \in {[s0 EXCEPT !.check_sha = s0.last_index_sha]} :
         LET name == args[r].video_names[s.i]
             filename == Filename(name)
             file_path == FilePath(name)
         IN  \E skipped \in {Count([s EXCEPT !.skip_count = @ + 1],
                                   filename, "skip")} :
             \E added \in {AddToBatch(skipped, file_path).s} :
               run' = [run EXCEPT ![r] =
                  IF KnownRemote(s, filename) THEN Advance(r, skipped)
                  ELSE IF Exists(s.fs, file_path)
                  THEN IF NeedsFlush(r, added)
                       THEN CallAttempt(added, FALSE, "next")
                       ELSE Advance(r, added)
                  ELSE SlotOrSubmit(r, s)]
    /\ UNCHANGED <<args, head, repo_files, commit_log, last_call>>

\* one iteration of the loop at line 413
WaitSlot(r) ==
    /\ run[r].pc = "wait_slot"
    /\ \E due \in BOOLEAN : \E s \in {CollectThen(r, run[r], "slot", due)} :
         run' = [run EXCEPT ![r] =
            IF s.pc = "attempt" THEN s ELSE SlotOrSubmit(r, s)]
    /\ UNCHANGED <<args, head, repo_files, commit_log, last_call>>

\* one iteration of the loop of wait_for_dispatch
WaitTick(r) ==
    /\ run[r].pc = "wait_dispatch"
    /\ args[r].dispatch_interval > 0
    /\ \E due \in BOOLEAN : \E s \in {CollectThen(r, run[r], "tick", due)} :
         run' = [run EXCEPT ![r] = s]
    /\ UNCHANGED <<args, head, repo_files, commit_log, last_call>>

\* wait_for_dispatch returns; the collect_completed of line 421
WaitExit(r) ==
    /\ run[r].pc = "wait_dispatch"
    /\ \E c \in {CollectCompleted(run[r])} :
         run' = [run EXCEPT ![r] =
            IF c.completed /\ NeedsFlush(r, c.s)
            THEN CallAttempt(c.s, FALSE, "next")
            ELSE Advance(r, c.s)]
    /\ UNCHANGED <<args, head, repo_files, commit_log, last_call>>

\* one iteration of the loop at line 423
Drain(r) ==
    /\ run[r].pc = "drain"
    /\ \E due \in BOOLEAN : \E s \in {CollectThen(r, run[r], "drain", due)} :
         run' = [run EXCEPT ![r] =
            IF s.pc = "attempt" THEN s ELSE Settle(s)]
    /\ UNCHANGED <<args, head, repo_files, commit_log, last_call>>

\* the refresh_if_due after a flush returned, and what follows it
AfterFlush(r) ==
    /\ run[r].pc \in {"slot_refresh", "tick_refresh", "drain_refresh",
                      "final_refresh"}
    /\ \E due \in BOOLEAN : \E s \in {RefreshIfDue(run[r], due)} :
         run' = [run EXCEPT ![r] =
            CASE s.pc = "slot_refresh"  -> SlotOrSubmit(r, s)
              [] s.pc = "tick_refresh"  -> [s EXCEPT !.pc = "wait_dispatch"]
              [] s.pc = "drain_refresh" -> Settle([s EXCEPT !.pc = "drain"])
              [] s.pc = "final_refresh" -> Settle([s EXCEPT !.pc = "final"])]
    /\ UNCHANGED <<args, head, repo_files, commit_log, last_call>>

(***************************************************************************)
(* attempt_upload.                                                         *)
(***************************************************************************)
\* (mutant) the part number of the first attempt is kept across a retry
AttemptPartNumberCached(s) ==
    LET split == SplitRepoFiles(s.last_repo_files)
    IN  IF s.conflicts > 0 THEN s.part_number
        ELSE NextPartNumber(split.tar_numbers, split.index_numbers)

\* lines 232-233: the part number of this attempt, from the listing just read
AttemptPartNumber(s) ==
    LET split == SplitRepoFiles(s.last_repo_files)
    IN  NextPartNumber(split.tar_numbers, split.index_numbers)

\* lines 239-240
AttemptSelect(r, s) ==
    SelectEntries(s.batch_entries, ThresholdBytes(r),
                  IF s.final THEN 0 ELSE ReferenceBytes(r))

\* lines 229-257: the forced refresh, the numbering and the selection
Attempt(r) ==
    /\ run[r].pc = "attempt"
    /\ \E s \in {RefreshIndexes(run[r]).s} :
       \E index_files \in {SplitRepoFiles(s.last_repo_files).index_files} :
       \E part_number \in {AttemptPartNumber(s)} :
       \E index_path \in {IndexPath(args[r].index_dir, TarName(part_number))} :
       \E selected \in {AttemptSelect(r, s).selected} :
           run' = [run EXCEPT ![r] =
              IF s.batch_entries = <<>> THEN Return(r, s, FALSE)
              ELSE IF index_path \in index_files THEN s
              ELSE IF selected = <<>> THEN Return(r, s, FALSE)
              ELSE [s EXCEPT !.pc = "upload",
                             !.part_number = part_number,
                             !.index_path = index_path,
                             !.selected = selected,
                             !.parent_sha = s.last_index_sha,
                             !.first_part = IF s.conflicts = 0 THEN part_number
                                            ELSE @,
                             !.first_sha = IF s.conflicts = 0
                                           THEN s.last_index_sha ELSE @]]
    /\ UNCHANGED <<args, head, repo_files, commit_log, last_call>>

\* (mutant) upload_folder called without parent_commit: every write lands
WriteAcceptedAlways(parent_sha) == TRUE

\* the store accepts upload_folder(parent_commit=parent_sha) only onto its head
WriteAccepted(parent_sha) == head = parent_sha

\* (mutant) is_conflict_error that knows 409 only
IsConflictError409(exc) ==
    IF ~exc.has_response THEN FALSE
    ELSE exc.status_code = 409

\* is_conflict_error
IsConflictError(exc) ==
    IF ~exc.has_response THEN FALSE
    ELSE exc.status_code \in {409, 412}

\* the folder that is uploaded: temp_dir/videos/<tar_name> and
\* temp_dir/index/<basename of index_path>, with path_in_repo = ""
UploadedFiles(s) ==
    LET tar_name == TarName(s.part_number)
        selected_names == Range(EntryNames(s.selected))
    IN  {[path |-> JoinPath("videos", tar_name),
          data |-> [type |-> "tar", names |-> selected_names]],
         [path |-> JoinPath("index", s.index_path),
          data |-> [type |-> "object", names |-> selected_names]]}

\* lines 262-269 and 276-280: the write is accepted
UploadDone(r) ==
    /\ run[r].pc = "upload"
    /\ WriteAccepted(run[r].parent_sha)
    /\ LET s == run[r]
           new_files == UploadedFiles(s)
           new_paths == {f.path : f \in new_files}
           selected_names == Range(EntryNames(s.selected))
       IN  \E removed \in {RemoveEntries(s, selected_names, FALSE).s} :
           /\ repo_files' = {f \in repo_files : f.path \notin new_paths}
                                \cup new_files
           /\ head' = head + 1
           /\ commit_log' = Append(commit_log,
                [by |-> r, part |-> s.part_number, names |-> selected_names,
                 total |-> SumSizes(s.selected), final |-> s.final,
                 parent |-> s.parent_sha, conflicts |-> s.conflicts,
                 first_part |-> s.first_part, first_sha |-> s.first_sha,
                 listed |-> s.last_repo_files,
                 before |-> s.batch_names,
                 overwrote |-> {f.path : f \in repo_files} \cap new_paths])
           /\ run' = [run EXCEPT ![r] =
                Return(r, [removed EXCEPT
                              !.last_remote_files = @ \cup selected_names,
                              !.selected = <<>>], TRUE)]
    /\ UNCHANGED <<args, last_call>>

\* (mutant) a conflict that drops the selected entries before the retry
UploadErrorDrops(s, exc) ==
    IF IsConflictError(exc)
    THEN [RemoveEntries(s, Range(EntryNames(s.selected)), FALSE).s EXCEPT
             !.pc = "attempt", !.conflicts = @ + 1]
    ELSE [s EXCEPT !.pc = "crashed", !.exc = exc]

\* (mutant) a rejected write after which the selected names count as remote
UploadErrorMarks(s, exc) ==
    IF IsConflictError(exc)
    THEN [s EXCEPT !.pc = "attempt", !.conflicts = @ + 1,
                   !.last_remote_files = @ \cup Range(EntryNames(s.selected))]
    ELSE [s EXCEPT !.pc = "crashed", !.exc = exc,
                   !.last_remote_files = @ \cup Range(EntryNames(s.selected))]

\* lines 271-274: a conflict restarts attempt_upload, any other error is
\* raised out of main; the accumulator is not touched
UploadError(s, exc) ==
    IF IsConflictError(exc)
    THEN [s EXCEPT !.pc = "attempt", !.conflicts = @ + 1]
    ELSE [s EXCEPT !.pc = "crashed", !.exc = exc]

\* lines 270-274: upload_folder raised HfHubHTTPError
UploadFailed(r) ==
    /\ run[r].pc = "upload"
    /\ \E exc \in {[has_response |-> FALSE, status_code |-> 0],
                   [has_response |-> TRUE, status_code |-> 500],
                   [has_response |-> TRUE, status_code |-> 409],
                   [has_response |-> TRUE, status_code |-> 412]} :
         \* the store answers 409 or 412 only when its head has moved
         /\ (exc.has_response /\ exc.status_code \in {409, 412})
               => ~WriteAccepted(run[r].parent_sha)
         \* any other error needs a transport that fails
         /\ ~(exc.has_response /\ exc.status_code \in {409, 412})
               => args[r].transport_errors
         /\ run' = [run EXCEPT ![r] = UploadError(run[r], exc)]
    /\ UNCHANGED <<args, head, repo_files, commit_log, last_call>>

(***************************************************************************)
(* The worker pool: download_one for the future at pending[k].  The pool   *)
(* runs at most Jobs(r) futures at once, in the order of submission.       *)
(***************************************************************************)
Running(r, k) ==
    /\ k \in 1..Len(run[r].pending)
    /\ ~run[r].pending[k].done
    /\ Cardinality({j \in 1..(k - 1) : ~run[r].pending[j].done}) < Jobs(r)

\* download_one: the status, and the file yt-dlp leaves
DownloadOne(r, s, name, outcome) ==
    LET file_path == FilePath(name)
    IN  IF Exists(s.fs, file_path) THEN [status |-> "skipped", fs |-> s.fs]
        ELSE CASE outcome = "ok" ->
                    [status |-> "downloaded",
                     fs |-> (file_path :> args[r].size[name]) @@ s.fs]
               [] outcome = "empty" ->
                    [status |-> "downloaded", fs |-> (file_path :> 0) @@ s.fs]
               [] outcome = "missing" ->
                    [status |-> "downloaded", fs |-> s.fs]
               [] outcome = "failed" ->
                    [status |-> "failed", fs |-> s.fs]

WorkerFinish(r) ==
    /\ \E k \in 1..Len(run[r].pending) :
         /\ Running(r, k)
         /\ \E outcome \in args[r].fetch :
            \E d \in {DownloadOne(r, run[r], run[r].pending[k].name, outcome)} :
              run' = [run EXCEPT ![r] =
                 [run[r] EXCEPT !.fs = d.fs,
                                !.pending[k].done = TRUE,
                                !.pending[k].status = d.status]]
    /\ UNCHANGED <<args, head, repo_files, commit_log, last_call>>

(***************************************************************************)
(* Initial states.                                                         *)
(***************************************************************************)
\* the variables of main() before line 351
InitRun(a) ==
    [pc |-> "init", ret |-> "next", i |-> 0,
     fs |-> [p \in {FilePath(n) : n \in a.local} |-> a.size[p.file[1]]],
     batch_entries |-> <<>>, batch_names |-> {}, batch_size |-> 0,
     post_skip_count |-> 0,
     last_index_sha |-> 0, last_repo_files |-> {}, last_remote_files |-> {},
     success_count |-> 0, fail_count |-> 0, skip_count |-> 0,
     pending |-> <<>>,
     final |-> FALSE, part_number |-> 0, index_path |-> TarName(0),
     selected |-> <<>>, parent_sha |-> 0,
     conflicts |-> 0, first_part |-> -1, first_sha |-> 0, check_sha |-> 0,
     exc |-> [has_response |-> FALSE, status_code |-> 0],
     submitted |-> {}, initial_remote |-> {}, counted |-> {}]

\* the revision of the store that create_repo(exist_ok=True) finds
FirstRevision(files) ==
    [by |-> 0, part |-> -1,
     names |-> RemoteNames(files),
     total |-> 0, final |-> FALSE, parent |-> 0, conflicts |-> 0,
     first_part |-> -1, first_sha |-> 0, listed |-> {}, before |-> {},
     overwrote |-> {}]

Shard(n, names) ==
    {[path |-> JoinPath("videos", TarName(n)),
      data |-> [type |-> "tar", names |-> names]],
     [path |-> IndexPath("index", TarName(n)),
      data |-> [type |-> "object", names |-> names]]}

\* stores a run can find: empty; one earlier shard; an archive whose manifest
\* was never written, a manifest outside the numbering and one numbered
\* without padding
InitialStores ==
    {{},
     Shard(0, {Filename(1)}),
     {[path |-> JoinPath("videos", TarName(1)),
       data |-> [type |-> "tar", names |-> {Filename(2)}]],
      [path |-> [dir |-> "index", part |-> FALSE, text |-> <<10>>, ext |-> ".json"],
       data |-> [type |-> "array", names |-> {Filename(2)}]],
      [path |-> [dir |-> "index", part |-> TRUE, text |-> <<2>>, ext |-> ".json"],
       data |-> [type |-> "object", names |-> {}]]}}

AllNames == [k \in 1..NumNames |-> k]

\* video_names is the list in the order random.shuffle (line 352) left it.
\* Run 1 fetches its names.  Run 2 is a run restarted over a name whose
\* artifact is already in its working directory: a name run 1 has too, or
\* one it has not.
NameLists ==
    {<<AllNames, SubSeq(AllNames, NumNames, NumNames)>>,
     <<SubSeq(AllNames, 1, NumNames - 1), SubSeq(AllNames, NumNames, NumNames)>>}

\* Run 1 asks for a reference size above the threshold (line 114 lowers it),
\* run 2 for one below.  Items are 1 or 2 bytes long.
InitArgs(lists) ==
    [r \in Runs |->
        [video_names |-> lists[r],
         jobs |-> 1,
         upload_threshold |-> 2,
         upload_reference |-> IF r = 1 THEN 3 ELSE 1,
         dispatch_interval |-> IF r = 1 THEN 1 ELSE 0,
         index_dir |-> "index",
         size |-> [n \in Names |-> 1 + (n % 2)],
         local |-> IF r = 1 THEN {} ELSE Range(lists[r]),
         fetch |-> {"ok", "failed"},
         transport_errors |-> r = 2]]

Init ==
    /\ \E lists \in NameLists : args = InitArgs(lists)
    /\ run = [r \in Runs |-> InitRun(args[r])]
    /\ repo_files \in InitialStores
    /\ head = 1
    /\ commit_log = <<FirstRevision(repo_files)>>
    /\ last_call = [op |-> "none"]

RunStep(r) ==
    \/ Start(r)
    \/ Dispatch(r)
    \/ WaitSlot(r)
    \/ WaitTick(r)
    \/ WaitExit(r)
    \/ Drain(r)
    \/ AfterFlush(r)
    \/ Attempt(r)
    \/ UploadDone(r)
    \/ UploadFailed(r)

Next == \E r \in Runs : RunStep(r) \/ WorkerFinish(r)

Spec == Init /\ [][Next]_vars

\* The coordinator thread keeps running and every fetch ends.
FairSpec ==
    /\ Spec
    /\ \A r \in Runs : WF_vars(RunStep(r)) /\ WF_vars(WorkerFinish(r))

(***************************************************************************)
(* The store with another writer: scripts/merge_yt_index.py uploads        *)
(* yt_index.json to the root of the repository with upload_file, which     *)
(* names no parent revision and so always lands.  It moves the head and    *)
(* adds no shard.  One such upload is enough to meet every run once.       *)
(***************************************************************************)
YtIndexFile ==
    [path |-> [dir |-> "", part |-> FALSE, text |-> <<11>>, ext |-> ".json"],
     data |-> [type |-> "array", names |-> {}]]

OtherUpload ==
    /\ \A k \in 2..Len(commit_log) : commit_log[k].by # 0
    /\ repo_files' = {f \in repo_files : f.path # YtIndexFile.path}
                         \cup {YtIndexFile}
    /\ head' = head + 1
    /\ commit_log' = Append(commit_log,
                         [FirstRevision({}) EXCEPT !.parent = head])
    /\ UNCHANGED <<args, run, last_call>>

NextOther == Next \/ OtherUpload

SpecOther == Init /\ [][NextOther]_vars

(***************************************************************************)
(* Run 1 with a pool of one or two workers: with two, fetches end in any   *)
(* order.                                                                  *)
(***************************************************************************)
InitPool ==
    /\ \E lists \in NameLists, jobs \in {1, 2} :
         args = [InitArgs(lists) EXCEPT
                   ![1].jobs = jobs,
                   ![1].fetch = {"ok", "empty", "failed"}]
    /\ run = [r \in Runs |-> InitRun(args[r])]
    /\ repo_files \in InitialStores
    /\ head = 1
    /\ commit_log = <<FirstRevision(repo_files)>>
    /\ last_call = [op |-> "none"]

SpecPool == InitPool /\ [][Next]_vars

(***************************************************************************)
(* Any configuration main() accepts: argparse takes any threshold and any  *)
(* --index-dir, and yt-dlp can exit 0 with a full file, an empty one or    *)
(* none.  Run 1 is given any threshold and such fetches; run 2, the        *)
(* concurrent writer of Init, is given another --index-dir.                *)
(***************************************************************************)
InitAny ==
    /\ \E lists \in NameLists, upload_threshold \in 0..MaxSize :
         args = [r \in Runs |->
                   IF r = 1
                   THEN [InitArgs(lists)[r] EXCEPT
                           !.upload_threshold = upload_threshold,
                           !.fetch = {"ok", "empty", "missing", "failed"}]
                   ELSE [InitArgs(lists)[r] EXCEPT
                           !.index_dir = "manifests"]]
    /\ run = [r \in Runs |-> InitRun(args[r])]
    /\ repo_files \in InitialStores
    /\ head = 1
    /\ commit_log = <<FirstRevision(repo_files)>>
    /\ last_call = [op |-> "none"]

SpecAny == InitAny /\ [][Next]_vars

FairAny ==
    /\ SpecAny
    /\ \A r \in Runs : WF_vars(RunStep(r)) /\ WF_vars(WorkerFinish(r))

(***************************************************************************)
(* The commit protocol over any listing: the store starts with up to       *)
(* MaxListed files at any paths under videos/ and index/ (numbered with or *)
(* without padding, with five digits, with a character that is no digit,   *)
(* with or without "part_"), and two runs, each with one artifact on disk, *)
(* commit to it with the default --index-dir.                              *)
(***************************************************************************)
MaxListed == 2

ListingTexts ==
    {<<0, 0, 0, 0>>, <<0, 0, 0, 1>>, <<1>>, <<2>>, <<0, 0, 0, 0, 1>>, <<10>>}

ListingFiles ==
    {[path |-> [dir |-> dir, part |-> part, text |-> text, ext |-> ext],
      data |-> [type |-> IF ext = ".tar" THEN "tar" ELSE "object",
                names |-> {}]] :
        dir \in {"index", "videos"}, part \in BOOLEAN,
        text \in ListingTexts, ext \in {".json", ".tar"}}

RECURSIVE ListingsUpTo(_)
ListingsUpTo(k) ==
    IF k = 0 THEN {{}}
    ELSE LET fewer == ListingsUpTo(k - 1)
         IN  fewer \cup {S \cup {f} : S \in fewer, f \in ListingFiles}

InitListing ==
    /\ args = [InitArgs(<<<<1>>, <<2>>>>) EXCEPT ![1].local = {1}]
    /\ run = [r \in Runs |-> InitRun(args[r])]
    /\ repo_files \in ListingsUpTo(MaxListed)
    /\ head = 1
    /\ commit_log = <<FirstRevision(repo_files)>>
    /\ last_call = [op |-> "none"]

NextListing ==
    \E r \in Runs :
       \/ Start(r)
       \/ Dispatch(r)
       \/ Attempt(r)
       \/ UploadDone(r)
       \/ UploadFailed(r)

SpecListing == InitListing /\ [][NextListing]_vars

(***************************************************************************)
(* Unit driver of the accumulator: add_to_batch and remove_entries of run  *)
(* 1 called in any order with any argument, between writes of any size to  *)
(* the local files.  last_call records the call and what it returned.      *)
(***************************************************************************)
BatchNames == 1..(NumNames - 1)

BatchPaths ==
    {FilePath(n) : n \in BatchNames}
        \cup {[dir |-> "other", file |-> Filename(1)]}

InitBatch ==
    /\ args = InitArgs(<<AllNames, <<NumNames>>>>)
    /\ run = [r \in Runs |->
                [InitRun(args[r]) EXCEPT !.pc = "unit", !.fs = << >>]]
    /\ repo_files = {}
    /\ head = 1
    /\ commit_log = <<FirstRevision(repo_files)>>
    /\ last_call = [op |-> "none"]

\* a file is written: a fetch left it, empty or not
BatchWrite(path, size) ==
    /\ run' = [run EXCEPT ![1].fs = (path :> size) @@ @]
    /\ last_call' = [op |-> "write"]
    /\ UNCHANGED <<args, head, repo_files, commit_log>>

BatchAdd(path) ==
    /\ \E a \in {AddToBatch(run[1], path)} :
         /\ run' = [run EXCEPT ![1] = a.s]
         /\ last_call' = [op |-> "add", path |-> path, ok |-> a.ok]
    /\ UNCHANGED <<args, head, repo_files, commit_log>>

BatchRemove(names, count_post_skip) ==
    /\ count_post_skip => run[1].post_skip_count < NumNames
    /\ \E rm \in {RemoveEntries(run[1], names, count_post_skip)} :
         /\ run' = [run EXCEPT ![1] = rm.s]
         /\ last_call' = [op |-> "remove", removed |-> rm.removed]
    /\ UNCHANGED <<args, head, repo_files, commit_log>>

NextBatch ==
    \/ \E path \in BatchPaths, size \in 0..MaxSize : BatchWrite(path, size)
    \/ \E path \in BatchPaths : BatchAdd(path)
    \/ \E names \in SUBSET {Filename(n) : n \in BatchNames},
          count_post_skip \in BOOLEAN :
          BatchRemove(names, count_post_skip)

SpecBatch == InitBatch /\ [][NextBatch]_vars

(***************************************************************************)
(* The run of ten names: none is remote or local, every fetch succeeds,    *)
(* four workers, all items of one size, a threshold of six items, an empty *)
(* store and no other writer (run 2 has ended).                            *)
(***************************************************************************)
TenNames == [k \in 1..10 |-> k]

InitTen ==
    /\ \E upload_reference \in {1}, dispatch_interval \in {0} :
         args = [r \in Runs |->
                   [video_names |-> IF r = 1 THEN TenNames ELSE <<>>,
                    jobs |-> 4,
                    upload_threshold |-> 6,
                    upload_reference |-> upload_reference,
                    dispatch_interval |-> dispatch_interval,
                    index_dir |-> "index",
                    size |-> [n \in Range(TenNames) |-> 1],
                    local |-> {},
                    fetch |-> {"ok"},
                    transport_errors |-> FALSE]]
    /\ run = [r \in Runs |->
                IF r = 1 THEN InitRun(args[r])
                ELSE [InitRun(args[r]) EXCEPT !.pc = "done"]]
    /\ repo_files = {}
    /\ head = 1
    /\ commit_log = <<FirstRevision(repo_files)>>
    /\ last_call = [op |-> "none"]

\* the steps of run 1; upload_folder cannot fail here
NextTen ==
    \/ Start(1) \/ Dispatch(1) \/ WaitSlot(1) \/ WaitExit(1)
    \/ Drain(1) \/ AfterFlush(1) \/ Attempt(1) \/ UploadDone(1)
    \/ WorkerFinish(1)

SpecTen == InitTen /\ [][NextTen]_vars

(***************************************************************************)
(* Properties.  ShardCommits are the revisions written by a run (revision  *)
(* 1 is the store as the runs found it).                                   *)
(***************************************************************************)
ShardCommits == {k \in 1..Len(commit_log) : commit_log[k].by # 0}

Manifests == {f \in repo_files : IsIndexPath(f.path)}

ListsOverlap == Range(args[1].video_names) \cap Range(args[2].video_names) # {}

\* C1: never re-upload.  Every commit a run makes is written onto the
\* revision it refreshed from, holds only names that no manifest of that
\* revision holds, and so no name is in two manifests of the store.
C1_NeverReupload ==
    /\ \A k \in ShardCommits :
         /\ commit_log[k].parent = k - 1
         /\ commit_log[k].names \cap NamesAt(k - 1) = {}
    /\ \A f, g \in Manifests :
         f # g => LoadRemoteIndex(f.data) \cap LoadRemoteIndex(g.data) = {}

\* both runs hold the same name, one commits it, and the other, after a
\* conflict and a purge of that name, commits the rest
C1_Witness ==
    /\ ListsOverlap
    /\ \E j, k \in ShardCommits :
         /\ commit_log[j].by # commit_log[k].by
         /\ j < k
         /\ commit_log[k].conflicts > 0
         /\ run[commit_log[k].by].post_skip_count > 0

\* C2 as claimed: never re-fetch.  No name is submitted to the pool while
\* a manifest of the store, at the revision the store is at, holds it.
C2_NeverRefetch ==
    \A r \in Runs : \A e \in run[r].submitted :
        Filename(e.name) \notin NamesAt(e.at)

\* C2 as amended: a name is submitted only if no manifest held it at the
\* revision of the run's snapshot when line 400 tested it; and if every
\* revision since that snapshot is the run's own, no manifest holds it when
\* it is submitted.
C2_NeverRefetchKnown ==
    \A r \in Runs : \A e \in run[r].submitted :
        /\ Filename(e.name) \notin NamesAt(e.check_sha)
        /\ (\A k \in (e.check_sha + 1)..e.at : commit_log[k].by = r)
              => Filename(e.name) \notin NamesAt(e.at)

\* a name is submitted after the run's own commit moved the store past the
\* run's snapshot, with names in the store before
C2_Witness ==
    \E r \in Runs : \E e \in run[r].submitted :
        /\ e.at > e.check_sha
        /\ \A k \in (e.check_sha + 1)..e.at : commit_log[k].by = r
        /\ commit_log[1].names # {}

ShardManifest(k) == JoinPath("index", IndexPath("index", TarName(commit_log[k].part)))

C3_Safe ==
    /\ \A j, k \in ShardCommits :
         j # k => commit_log[j].part # commit_log[k].part
    /\ \A k \in ShardCommits :
         /\ commit_log[k].overwrote = {}
         /\ \E f \in Manifests :
              /\ f.path = ShardManifest(k)
              /\ f.data.names = commit_log[k].names
    /\ RemoteNames(repo_files) = NamesAt(Len(commit_log))

Finished(r) ==
    \/ run[r].pc = "done"
    \/ run[r].pc = "crashed" /\ ~IsConflictError(run[r].exc)

\* C3: two runs with disjoint names sharing the store.  Under fair scheduling
\* both runs end (in "done", unless upload_folder raised an error that is no
\* conflict).  In every state all committed shards have pairwise distinct part
\* numbers, no commit wrote over a file of the store, every shard's manifest
\* is in the store as it was written, and the names of the manifests are the
\* names the store had plus the names the runs committed.
C3_DisjointRunsComplete ==
    /\ [](~ListsOverlap => C3_Safe)
    /\ (~ListsOverlap) => <>(\A r \in Runs : Finished(r))

\* both runs are done, each has committed, and one met a conflict on the way
C3_Witness ==
    /\ ~ListsOverlap
    /\ \A r \in Runs : run[r].pc = "done"
    /\ \E j, k \in ShardCommits :
         /\ commit_log[j].by = 1 /\ commit_log[k].by = 2
         /\ commit_log[j].conflicts + commit_log[k].conflicts > 0

\* the accumulator of s is consistent
Consistent(s) ==
    /\ s.batch_size = SumSizes(s.batch_entries)
    /\ s.batch_names = Range(EntryNames(s.batch_entries))

\* C4: in every reachable state, whatever adds, removals, refresh purges and
\* commits came before, batch_size is the exact sum of the sizes of the
\* current entries and batch_names is the set of their names.
C4_SizeIsSum == \A r \in Runs : Consistent(run[r])

\* a run that has committed a shard and lost an entry to a purge still holds
\* an entry
C4_Witness ==
    \E r \in Runs :
      /\ run[r].batch_entries # <<>>
      /\ \E k \in ShardCommits : commit_log[k].by = r
      /\ \E n \in AllFilenames :
           /\ <<n, "post_skip">> \in run[r].counted
           /\ n \notin run[r].batch_names

\* the cases in which add_to_batch must refuse: the file is missing, it is
\* empty, or an entry of the accumulator already has its base name
AddRefused(s, path) ==
    \/ ~Exists(s.fs, path)
    \/ s.fs[path] = 0
    \/ \E k \in 1..Len(s.batch_entries) :
         s.batch_entries[k].name = Basename(path)

OneEntryPerName(s) ==
    \A j, k \in 1..Len(s.batch_entries) :
        s.batch_entries[j].name = s.batch_entries[k].name => j = k

\* C5: add_to_batch returns False and changes neither the entries nor the
\* size when the base name of the path is already in the accumulator, when
\* the file is missing and when it is empty; otherwise it returns True.  So
\* in every state no two entries have the same name and every entry has a
\* size above 0.
C5_AddIdempotent ==
    /\ [](OneEntryPerName(run[1]))
    /\ [](\A k \in 1..Len(run[1].batch_entries) :
            run[1].batch_entries[k].size > 0)
    /\ [][\A path \in BatchPaths :
            BatchAdd(path) =>
              /\ last_call'.ok = ~AddRefused(run[1], path)
              /\ AddRefused(run[1], path) =>
                    /\ run'[1].batch_entries = run[1].batch_entries
                    /\ run'[1].batch_size = run[1].batch_size
                    /\ run'[1].batch_names = run[1].batch_names]_vars

\* an add was refused for its base name alone: the file is there and not
\* empty, under another directory than the entry of that name
C5_Witness ==
    /\ last_call.op = "add"
    /\ ~last_call.ok
    /\ Exists(run[1].fs, last_call.path)
    /\ run[1].fs[last_call.path] > 0
    /\ \E k \in 1..Len(run[1].batch_entries) :
         /\ run[1].batch_entries[k].name = Basename(last_call.path)
         /\ run[1].batch_entries[k].path # last_call.path
    /\ Len(run[1].batch_entries) > 1

\* the arguments select_entries is checked with
Targets == 0..(NumNames * MaxSize + 1)

\* what select_entries(target_bytes, size_lowerbound) may return from entries
SelectOK(entries, target_bytes, size_lowerbound) ==
    LET res == SelectEntries(entries, target_bytes, size_lowerbound)
        n == Len(res.selected)
    IN  /\ res.total = SumSizes(res.selected)
        /\ res.selected # <<>> =>
              /\ SumSizes(res.selected) >= size_lowerbound
              /\ res.selected = SubSeq(entries, 1, n)
              /\ \A k \in 0..(n - 1) :
                    SumSizes(SubSeq(entries, 1, k)) < target_bytes
              /\ SumSizes(res.selected) >= target_bytes \/ n = Len(entries)

\* C6: select_entries never returns entries whose total is below the
\* minimum; the entries it returns are the shortest prefix of the
\* accumulator that reaches the target, or all of it when the target is not
\* reached.  So every commit that is not final ships at least
\* reference_bytes; a final commit may ship less.
C6_SelectMinimum ==
    /\ \A r \in Runs : \A target_bytes, size_lowerbound \in Targets :
          SelectOK(run[r].batch_entries, target_bytes, size_lowerbound)
    /\ \A k \in ShardCommits :
          ~commit_log[k].final =>
              commit_log[k].total >= ReferenceBytes(commit_log[k].by)

\* a final commit below reference_bytes and a commit that was not final
C6_Witness ==
    \E j, k \in ShardCommits :
      /\ ~commit_log[j].final
      /\ commit_log[k].final
      /\ commit_log[k].total < ReferenceBytes(commit_log[k].by)

\* the part numbers a listing shows: of the archives videos/part_<n>.tar and
\* of the manifests index/part_<n>.json
VisibleNumbers(listing) ==
    {ParseInt(p.text) :
       p \in {q \in listing :
                /\ q.part /\ IsDigit(q.text)
                /\ \/ q.dir = "videos" /\ q.ext = ".tar"
                   \/ q.dir = "index" /\ q.ext = ".json"}}

PartNumberFresh(part_number, listing) ==
    /\ \A n \in VisibleNumbers(listing) : part_number > n
    /\ VisibleNumbers(listing) = {} => part_number = 0

\* C7: at every commit attempt, the first and every retry, the part number
\* is above every archive number and every manifest number of the listing
\* the forced refresh of that attempt read, and is 0 when the listing shows
\* no numbered shard.
C7_PartNumberFresh ==
    /\ \A r \in Runs :
          run[r].pc = "upload" =>
              /\ PartNumberFresh(run[r].part_number, run[r].last_repo_files)
              /\ run[r].parent_sha = head =>
                    run[r].last_repo_files = ListRepoFiles(repo_files)
    /\ \A k \in ShardCommits :
          PartNumberFresh(commit_log[k].part, commit_log[k].listed)

\* a retry whose number differs from the first attempt's, with a numbered
\* manifest in its listing that has no archive of its number
C7_Witness ==
    \E r \in Runs :
      /\ run[r].pc = "upload"
      /\ run[r].conflicts > 0
      /\ run[r].part_number # run[r].first_part
      /\ \E p \in run[r].last_repo_files :
           /\ p.dir = "index" /\ p.part /\ IsDigit(p.text)
           /\ \A q \in run[r].last_repo_files :
                q.dir = "videos" => ParseInt(q.text) # ParseInt(p.text)

\* C8: the run of ten names.  Whatever the order in which the workers finish,
\* the run commits while the accumulator holds the size of six items or
\* more, the first upload is not final and ships the first six entries of
\* the accumulator in the order they arrived, the second is the final flush
\* and ships the four that remain, and the run ends with exactly these two
\* commits.
C8_TwoCommits ==
    LET s == run[1]
    IN  /\ s.pc # "crashed"
        /\ Cardinality(ShardCommits) <= 2
        /\ s.batch_size >= ThresholdBytes(1) =>
              s.pc \in {"attempt", "upload"} /\ ~s.final
        /\ s.pc = "upload" =>
              /\ s.selected = SubSeq(s.batch_entries, 1, Len(s.selected))
              /\ IF ShardCommits = {}
                 THEN ~s.final /\ Len(s.selected) = 6
                 ELSE s.final /\ Len(s.selected) = 4
                        /\ s.selected = s.batch_entries
        /\ s.pc = "done" =>
              /\ ShardCommits = {2, 3}
              /\ ~commit_log[2].final
              /\ Cardinality(commit_log[2].names) = 6
              /\ commit_log[3].final
              /\ commit_log[3].names =
                    {Filename(n) : n \in Range(TenNames)} \ commit_log[2].names
              /\ Cardinality(commit_log[3].names) = 4

\* the run has ended; its first commit was made with eight entries held, of
\* which it shipped six that are not the first six names of the list
C8_Witness ==
    /\ run[1].pc = "done"
    /\ Len(commit_log) = 3
    /\ Cardinality(commit_log[2].before) = 8
    /\ commit_log[2].names # {Filename(n) : n \in 1..6}

\* the position of a name in the list of run r, 0 if it is not in it
IndexOf(r, name) ==
    IF name \in Range(args[r].video_names)
    THEN CHOOSE k \in 1..Len(args[r].video_names) :
            args[r].video_names[k] = name
    ELSE 0

\* C9: a name that is in the remote snapshot of the first refresh, before
\* the dispatch loop starts, is never submitted to the pool, is never
\* counted as a success, and once the loop has passed it, it is counted as
\* a skip.
C9_RemoteNeverFetched ==
    \A r \in Runs : \A name \in Range(args[r].video_names) :
        Filename(name) \in run[r].initial_remote =>
            /\ \A e \in run[r].submitted : e.name # name
            /\ <<Filename(name), "success">> \notin run[r].counted
            /\ run[r].i > IndexOf(r, name) =>
                  <<Filename(name), "skip">> \in run[r].counted

\* a run has ended whose list holds a name that was remote at its start and
\* another that it fetched
C9_Witness ==
    \E r \in Runs : \E name \in Range(args[r].video_names) :
        /\ Filename(name) \in run[r].initial_remote
        /\ run[r].pc = "done"
        /\ <<Filename(name), "skip">> \in run[r].counted
        /\ run[r].submitted # {}

\* the shards committed onto the revisions first_sha + 1 .. parent
ShardsBetween(first_sha, parent) ==
    {j \in ShardCommits : first_sha < j /\ j <= parent}

\* the files of the store that hold exactly the names of commit k
FilesOf(k, type) ==
    {f \in repo_files :
        f.data.type = type /\ f.data.names = commit_log[k].names}

\* C10 as claimed: a commit that met one conflict and then succeeded used a
\* part number one higher than its first attempt's.
C10_RetryOneHigher ==
    \A k \in ShardCommits :
        commit_log[k].conflicts = 1 =>
            commit_log[k].part = commit_log[k].first_part + 1

\* C10 as amended: a conflict leaves attempt_upload by no exception; the
\* commit that succeeds after conflicts uses the part number of its first
\* attempt plus the number of shards other writers committed between the
\* two listings (none when the conflict came from a commit that added no
\* shard); and the store holds one archive and one manifest of this commit.
C10_RetryRenumbered ==
    /\ \A r \in Runs :
          run[r].pc = "crashed" =>
              ~(run[r].exc.has_response
                  /\ run[r].exc.status_code \in {409, 412})
    /\ \A k \in ShardCommits :
          /\ commit_log[k].part = commit_log[k].first_part
                + Cardinality(ShardsBetween(commit_log[k].first_sha,
                                            commit_log[k].parent))
          /\ Cardinality(FilesOf(k, "tar")) = 1
          /\ Cardinality(FilesOf(k, "object")) = 1

\* a commit that succeeded after one conflict, two numbers above its first
\* attempt; and one that succeeded after one conflict with the same number
C10_Witness ==
    /\ \E k \in ShardCommits :
         /\ commit_log[k].conflicts = 1
         /\ commit_log[k].part = commit_log[k].first_part + 1
    /\ \E k \in ShardCommits :
         /\ commit_log[k].conflicts = 1
         /\ commit_log[k].part = commit_log[k].first_part

\* C11 as claimed: termination.  Whatever the threshold, the reference
\* size and the dispatch interval, when every worker finishes and the
\* coordinator keeps running, a run whose upload_folder fails only by
\* conflicts ends in "done" with an empty accumulator.
C11_ReachesDone ==
    <>(run[1].pc = "done" /\ run[1].batch_entries = <<>>)

(***************************************************************************)
(* The futures a step of run r collects, and those among them whose fetch  *)
(* ended with exit code 0 and a non-empty output file.                     *)
(***************************************************************************)
DoneFutures(r) ==
    {k \in 1..Len(run[r].pending) : run[r].pending[k].done}

Collected(r) ==
    /\ DoneFutures(r) # {}
    /\ \A k \in 1..Len(run'[r].pending) : ~run'[r].pending[k].done

FetchedWithFile(r) ==
    {k \in DoneFutures(r) :
       /\ run[r].pending[k].status = "downloaded"
       /\ Exists(run[r].fs, run[r].pending[k].result)
       /\ run[r].fs[run[r].pending[k].result] > 0}

FetchedWithoutFile(r) ==
    {k \in DoneFutures(r) :
       /\ run[r].pending[k].status # "skipped"
       /\ k \notin FetchedWithFile(r)}

\* C12 as claimed: a step that collects finished fetches adds to the
\* succeeded counter at most the number of fetches that exited 0 and left a
\* non-empty file, and adds to the failed counter every other fetch whose
\* name is not already remote (non-zero exit, or no file, or an empty file).
C12_SuccessNeedsFile ==
    [][\A r \in Runs :
         Collected(r) =>
           /\ run'[r].success_count - run[r].success_count
                 <= Cardinality(FetchedWithFile(r))
           /\ run'[r].fail_count - run[r].fail_count
                 >= Cardinality({k \in FetchedWithoutFile(r) :
                      ~KnownRemote(run[r],
                                   Filename(run[r].pending[k].name))})]_vars

(***************************************************************************)
(* The own commit of run r made by this step, if there is one.             *)
(***************************************************************************)
CommitsNow(r) ==
    /\ head' = head + 1
    /\ commit_log'[head'].by = r

\* C13: no fetched artifact is lost.  A name leaves the accumulator of a run
\* only in a step that commits it for that run, or in a step without a
\* commit whose refresh found it in the remote manifests; in both cases a
\* remote manifest lists it after the step.  A step that leaves a run at its
\* upload without a new revision (a failed or conflicting attempt) removes
\* no entry and deletes no entry's file.  Names listed by the remote manifests stay listed, and a run
\* that is done has an empty accumulator: hence at "done" every name that
\* was ever in the accumulator is in some remote manifest.
C13_NoArtifactLost ==
    /\ [][\A r \in Runs :
            /\ \A f \in run[r].batch_names \ run'[r].batch_names :
                  /\ f \in RemoteNames(repo_files')
                  /\ \/ CommitsNow(r) /\ f \in commit_log'[head'].names
                     \/ head' = head /\ f \in run'[r].last_remote_files
            /\ (run[r].pc = "upload" /\ head' = head)
                  => /\ run'[r].batch_entries = run[r].batch_entries
                     /\ run'[r].batch_names = run[r].batch_names
                     /\ \A k \in 1..Len(run[r].batch_entries) :
                           Exists(run'[r].fs, run[r].batch_entries[k].path)
            /\ \A k \in 1..Len(run[r].batch_entries) :
                  run[r].batch_entries[k].name \in run[r].batch_names]_vars
    /\ [][RemoteNames(repo_files) \subseteq RemoteNames(repo_files')]_vars
    /\ [](\A r \in Runs :
            run[r].pc = "done"
              => run[r].batch_names = {} /\ run[r].batch_entries = <<>>)

\* a run is done after a conflicting attempt, a commit of its own and a
\* purge by a refresh, and its accumulator is empty
C13_Witness ==
    \E r \in Runs :
      /\ run[r].pc = "done"
      /\ run[r].batch_entries = <<>>
      /\ \E k \in 1..Len(commit_log) :
            /\ commit_log[k].by = r
            /\ commit_log[k].conflicts > 0
      /\ \E n \in Names : <<Filename(n), "post_skip">> \in run[r].counted

\* C14 as claimed: the number of in-flight tasks (submitted and not yet
\* collected by the coordinator) never exceeds the concurrency budget J.
C14_InFlightWithinJobs ==
    \A r \in Runs : Len(run[r].pending) <= Jobs(r)

\* C14 amended: a name is submitted only when fewer than max(1, 2 * J) tasks
\* are in flight, so the number of in-flight tasks never exceeds
\* max(1, 2 * J).
C14_InFlightWithinTwiceJobs ==
    /\ [](\A r \in Runs : Len(run[r].pending) <= Max({1, 2 * Jobs(r)}))
    /\ [][\A r \in Runs :
            run'[r].submitted # run[r].submitted
              => /\ Len(run'[r].pending) <= Max({1, 2 * Jobs(r)})
                 /\ Cardinality({k \in 1..Len(run[r].pending) :
                                   ~run[r].pending[k].done})
                       < Max({1, 2 * Jobs(r)})]_vars

\* the coordinator waits for a slot with max(1, 2 * J) tasks in flight,
\* more than J
C14_Witness ==
    \E r \in Runs :
      /\ run[r].pc = "wait_slot"
      /\ Len(run[r].pending) = Max({1, 2 * Jobs(r)})
      /\ Len(run[r].pending) > Jobs(r)

(***************************************************************************)
(* The accounting of names: the names counted under a label, and the       *)
(* names progress.update(1) was called for, which are those counted as a   *)
(* success, a failure or a skip and those counted as a post-skip only (a   *)
(* fetched name that was remote when it was collected).                    *)
(***************************************************************************)
CountedAs(r, label) ==
    {Filename(n) : n \in {m \in Names :
                             <<Filename(m), label>> \in run[r].counted}}

PostSkippedOnly(r) ==
    CountedAs(r, "post_skip")
      \ (CountedAs(r, "success") \cup CountedAs(r, "fail")
           \cup CountedAs(r, "skip"))

FinalPhase(r) == run[r].final \/ run[r].pc = "done"

\* C15: from the start of the final flush on, no task is in flight, every
\* input name is accounted for under exactly one of success, failure, skip
\* and post-skip-on-collection, no name twice under one of them, and the
\* number of names accounted for is the number of input names.
C15_AllAccountedOnce ==
    \A r \in Runs :
      FinalPhase(r) =>
        /\ run[r].pending = <<>>
        /\ run[r].success_count = Cardinality(CountedAs(r, "success"))
        /\ run[r].fail_count = Cardinality(CountedAs(r, "fail"))
        /\ run[r].skip_count = Cardinality(CountedAs(r, "skip"))
        /\ CountedAs(r, "success") \cap CountedAs(r, "fail") = {}
        /\ CountedAs(r, "success") \cap CountedAs(r, "skip") = {}
        /\ CountedAs(r, "fail") \cap CountedAs(r, "skip") = {}
        /\ CountedAs(r, "success") \cup CountedAs(r, "fail")
              \cup CountedAs(r, "skip") \cup PostSkippedOnly(r)
             = {Filename(n) : n \in Range(args[r].video_names)}
        /\ run[r].success_count + run[r].fail_count + run[r].skip_count
              + Cardinality(PostSkippedOnly(r))
             = Len(args[r].video_names)

\* the final flush of a run with two workers has started after the second
\* name of the list was collected and committed before the first
C15_Witness ==
    \E r \in Runs :
      /\ FinalPhase(r)
      /\ Jobs(r) = 2
      /\ \E k1, k2 \in 1..Len(commit_log) :
            /\ k1 < k2
            /\ commit_log[k1].by = r
            /\ commit_log[k2].by = r
            /\ Filename(args[r].video_names[2]) \in commit_log[k1].names
            /\ Filename(args[r].video_names[1]) \in commit_log[k2].names

(***************************************************************************)
(* What one performed refresh of run r does to the accumulator, read off   *)
(* the step: K is the known-name set the step leaves.                      *)
(***************************************************************************)
PurgedBy(r) ==
    Len(run[r].batch_entries) - Len(run'[r].batch_entries)

RefreshPurges(r) ==
    LET K == run'[r].last_remote_files
    IN  /\ K = RemoteNames(repo_files)
        /\ run'[r].batch_entries =
              SelectSeq(run[r].batch_entries, LAMBDA e : e.name \notin K)
        /\ run'[r].batch_names = run[r].batch_names \ K
        /\ run'[r].post_skip_count = run[r].post_skip_count + PurgedBy(r)
        /\ RefreshIndexes(run[r]).result
              = (K # run[r].last_remote_files \/ PurgedBy(r) > 0)

NothingRefreshed(r) ==
    /\ run'[r].last_remote_files = run[r].last_remote_files
    /\ run'[r].last_index_sha = run[r].last_index_sha
    /\ run'[r].batch_entries = run[r].batch_entries
    /\ run'[r].post_skip_count = run[r].post_skip_count

\* a step of the coordinator of run r, not of a worker of its pool (which
\* marks a future of pending as done)
CoordinatorStep(r) ==
    /\ run'[r] # run[r]
    /\ run'[r].pending = run[r].pending

\* C16: a step that is a forced refresh (the first one, or the one that
\* opens a commit attempt) purges exactly the entries whose names are in the
\* new known-name set, adds the number purged to the post-skip counter and
\* returns TRUE iff the known-name set changed or an entry was purged; a
\* step that is a timed refresh does the same or, when not due, nothing.
\* In every state the names of the accumulator and the known names of the
\* snapshot are disjoint.
C16_RefreshPurgesKnown ==
    /\ [][\A r \in Runs :
            /\ (run[r].pc \in {"init", "attempt"} /\ CoordinatorStep(r))
                  => RefreshPurges(r)
            /\ (run[r].pc \in {"tick_refresh", "final_refresh"}
                   /\ CoordinatorStep(r))
                  => RefreshPurges(r) \/ NothingRefreshed(r)]_vars
    /\ [](\A r \in Runs :
            /\ run[r].batch_names \cap run[r].last_remote_files = {}
            /\ \A k \in 1..Len(run[r].batch_entries) :
                  run[r].batch_entries[k].name
                     \notin run[r].last_remote_files)

\* a refresh has purged a fetched name another run committed: it is counted
\* as a success and as a post-skip, it is known remote and no longer batched
C16_Witness ==
    \E r \in Runs : \E n \in Names :
      /\ <<Filename(n), "success">> \in run[r].counted
      /\ <<Filename(n), "post_skip">> \in run[r].counted
      /\ Filename(n) \in run[r].last_remote_files
      /\ Filename(n) \notin run[r].batch_names
      /\ run[r].post_skip_count > 0
      /\ \A k \in 1..Len(commit_log) :
            Filename(n) \in commit_log[k].names => commit_log[k].by # r

(***************************************************************************)
(* The bookkeeping of run r that a write could touch.                      *)
(***************************************************************************)
Bookkeeping(s) ==
    <<s.batch_entries, s.batch_names, s.batch_size, s.last_remote_files,
      s.last_repo_files, s.last_index_sha, s.post_skip_count,
      s.success_count, s.fail_count, s.skip_count>>

\* C17: a step of the coordinator out of upload_folder that makes no
\* revision (the write was rejected) leaves the accumulator, the snapshot
\* and the counters as they were and the store's files unchanged, and goes
\* on at the forced refresh of attempt_upload or, for an error that is not
\* a conflict, leaves main with that error.  The accumulator and the known
\* names change in a step out of upload_folder only when the step is the
\* run's own commit, and then by the selected names only.
C17_RejectedWriteTouchesNothing ==
    [][\A r \in Runs :
         (run[r].pc = "upload" /\ CoordinatorStep(r)) =>
            \/ /\ head' = head
               /\ repo_files' = repo_files
               /\ commit_log' = commit_log
               /\ Bookkeeping(run'[r]) = Bookkeeping(run[r])
               /\ \/ /\ run'[r].pc = "attempt"
                     /\ run'[r].conflicts = run[r].conflicts + 1
                     /\ head # run[r].parent_sha
                  \/ /\ run'[r].pc = "crashed"
                     /\ ~IsConflictError(run'[r].exc)
            \/ /\ CommitsNow(r)
               /\ head = run[r].parent_sha
               /\ run'[r].batch_names
                    = run[r].batch_names \ Range(EntryNames(run[r].selected))
               /\ run'[r].last_remote_files
                    = run[r].last_remote_files
                        \cup Range(EntryNames(run[r].selected))]_vars

\* a write was rejected with a conflict: the run is back at the top of
\* attempt_upload, the selected entries are still batched and none of their
\* names is known remote or in a remote manifest
C17_Witness ==
    \E r \in Runs :
      /\ run[r].pc = "attempt"
      /\ run[r].conflicts > 0
      /\ Len(run[r].selected) > 0
      /\ \A k \in 1..Len(run[r].selected) :
            /\ run[r].selected[k] \in Range(run[r].batch_entries)
            /\ run[r].selected[k].name \notin run[r].last_remote_files
            /\ run[r].selected[k].name \notin RemoteNames(repo_files)

(***************************************************************************)
(* The manifests a step writes to the store, and the manifests the store   *)
(* holds under the prefix run r was configured with.                       *)
(***************************************************************************)
ManifestsWritten ==
    {f \in repo_files' \ repo_files : f.path.ext = ".json"}

ManifestsUnder(r) ==
    {f \in repo_files :
       f.path.dir = args[r].index_dir /\ f.path.ext = ".json"}

\* C18 as claimed: for every configured manifest prefix, a commit of run r
\* writes one manifest, under args.index_dir and with the part number of
\* the archive, at exactly the path the attempt tested against the listing
\* (index_path), and a forced refresh builds the known names from the
\* manifests under args.index_dir.
C18_ManifestUnderPrefix ==
    [][\A r \in Runs :
         /\ CommitsNow(r) =>
               /\ Cardinality(ManifestsWritten) = 1
               /\ \A f \in ManifestsWritten :
                     /\ f.path.dir = args[r].index_dir
                     /\ f.path.part
                     /\ ParseInt(f.path.text) = run[r].part_number
                     /\ f.path = run[r].index_path
         /\ (run[r].pc \in {"init", "attempt"} /\ CoordinatorStep(r)) =>
               run'[r].last_remote_files
                 = UNION {LoadRemoteIndex(f.data) : f \in ManifestsUnder(r)}]_vars

(***************************************************************************)
(* Steps of run r that submit a name to the pool, and steps that add an    *)
(* entry to the accumulator.                                               *)
(***************************************************************************)
Submits(r) == run'[r].submitted # run[r].submitted

Adds(r) == ~(run'[r].batch_names \subseteq run[r].batch_names)

\* C19 as claimed, for the positive thresholds: whenever the coordinator
\* submits a name to the fetch pool, the cumulative size of the accumulator
\* is below the flush threshold.
C19_NoBacklogAtSubmit ==
    [][\A r \in Runs :
         (Submits(r) /\ ThresholdBytes(r) > 0)
            => run'[r].batch_size < ThresholdBytes(r)]_vars

\* C19 amended: every step that adds to the accumulator and leaves its size
\* at or above the threshold goes inline into one non-final commit attempt,
\* before any further name is submitted.
C19_AddThenAttempt ==
    [][\A r \in Runs :
         (Adds(r) /\ run'[r].batch_size >= ThresholdBytes(r))
            => /\ run'[r].pc = "attempt"
               /\ ~run'[r].final
               /\ ~Submits(r)]_vars

\* after an inline attempt that committed one shard of the run, a name has
\* been submitted while the accumulator still holds the threshold or more
C19_Witness ==
    \E r \in Runs :
      /\ ThresholdBytes(r) > 0
      /\ run[r].pc = "wait_dispatch"
      /\ run[r].batch_size >= ThresholdBytes(r)
      /\ \E k \in 1..Len(commit_log) :
            commit_log[k].by = r /\ ~commit_log[k].final

(***************************************************************************)
(* Step 4 of attempt_upload over a listing: the manifest path computed     *)
(* with the prefix index_dir is among the listed manifests (line 236).     *)
(***************************************************************************)
ManifestListed(listing, index_dir) ==
    LET split == SplitRepoFiles(listing)
        part_number == NextPartNumber(split.tar_numbers, split.index_numbers)
    IN  IndexPath(index_dir, TarName(part_number)) \in split.index_files

\* C20: with the default prefix "index", for the listing the store returns
\* at any of its revisions and for the listing a run holds, the manifest
\* path computed from max(archive numbers, manifest numbers) + 1 is not
\* among the listed manifests, so an attempt never restarts at line 237.
C20_NoRestartWithDefaultPrefix ==
    \A r \in Runs :
      args[r].index_dir = "index" =>
        /\ ~ManifestListed(ListRepoFiles(repo_files), args[r].index_dir)
        /\ ~ManifestListed(run[r].last_repo_files, args[r].index_dir)
        /\ run[r].pc = "attempt" =>
              ~ManifestListed(RefreshIndexes(run[r]).s.last_repo_files,
                              args[r].index_dir)

\* a run is at its upload with a part number computed from a listing that
\* holds a manifest numbered without the padding of four digits and
\* another file with a lower number
C20_Witness ==
    \E r \in Runs :
      /\ run[r].pc = "upload"
      /\ run[r].part_number >= 2
      /\ \E p \in run[r].last_repo_files :
            /\ IsIndexPath(p) /\ p.part /\ IsDigit(p.text)
            /\ Len(p.text) # 4
            /\ ParseInt(p.text) = run[r].part_number - 1
      /\ \E p \in run[r].last_repo_files :
            /\ p.part /\ IsDigit(p.text)
            /\ ParseInt(p.text) < run[r].part_number - 1

(***************************************************************************)
(* The four counters of run r, and the names counted both as a post-skip   *)
(* and as a success or a skip: a name purged by a refresh after it was     *)
(* counted, or a file found on disk by the worker whose name was remote    *)
(* when it was collected.                                                  *)
(***************************************************************************)
SumOfCounters(r) ==
    run[r].success_count + run[r].fail_count + run[r].skip_count
      + run[r].post_skip_count

CountedTwice(r) ==
    CountedAs(r, "post_skip")
      \cap (CountedAs(r, "success") \cup CountedAs(r, "skip"))

\* C21 as claimed: when a run is done, its four counters sum to the number
\* of input names.
C21_CountersPartition ==
    \A r \in Runs :
      run[r].pc = "done" => SumOfCounters(r) = Len(args[r].video_names)

\* C21 amended: when a run is done, succeeded, failed and pre-skipped count
\* each input name at most once between them, the names in none of them
\* are post-skipped, and the post-skip counter also counts once every name
\* that was first counted as succeeded or pre-skipped and then found
\* remote: the four counters sum to the number of input names plus the
\* number of such names.
C21_CountersCoverInput ==
    \A r \in Runs :
      run[r].pc = "done" =>
        /\ run[r].success_count + run[r].fail_count + run[r].skip_count
              <= Len(args[r].video_names)
        /\ run[r].post_skip_count = Cardinality(CountedAs(r, "post_skip"))
        /\ CountedAs(r, "post_skip") \cap CountedAs(r, "fail") = {}
        /\ SumOfCounters(r)
              = Len(args[r].video_names) + Cardinality(CountedTwice(r))

\* a run is done with a fetched name counted as succeeded and, after a
\* refresh purged it, as post-skipped: its counters sum to more than the
\* number of its input names
C21_Witness ==
    \E r \in Runs :
      /\ run[r].pc = "done"
      /\ CountedAs(r, "success") \cap CountedAs(r, "post_skip") # {}
      /\ SumOfCounters(r) > Len(args[r].video_names)

====
